---- MODULE Spec2Model ----
(***************************************************************************)
(* Model of src/asynctask.h: AsyncTaskBase and its two progress variants   *)
(* AsyncTask (latest value) and AsyncTaskPQ (ordered queue), driven by one *)
(* owner thread and the worker thread std::async spawns in execute().      *)
(*                                                                         *)
(* The owner's calls are atomic steps except where the code waits for the  *)
(* worker (get(), the destructor).  The worker lambda is cut at every      *)
(* access to state the owner can see.  Atomics are read and written in     *)
(* interleaving order.  User hooks are inputs: each may return or raise.   *)
(***************************************************************************)
EXTENDS Integers, Sequences, FiniteSets, TLC

\* ---------------------------------------------------------------- bounds
\* Number of snapshots the computation publishes: 1 .. MaxPublish.
MaxPublish == 3
\* Cap on the log of onProgressUpdate calls of the latest-value variant.
MaxDeliver == 2

\* ------------------------------------------------------------- constants
\* Result{} and Progress{} of the int instantiations AsyncTask<int,int,int>.
DefaultResult == 0
DefaultProgress == 0
\* Return value of a call that returns nothing or raised.
NoRet == -1

StatusSet == {"PENDING", "RUNNING", "FINISHED"}

\* What a failing worker can raise: `throw 10` in doInBackground, the
\* throwing copy of a Progress in storeProgress, a raising postResult.
WorkerFailures == {"doInBackground", "storeProgress", "postResult"}
NullEptr == "null"

\* The subclass under test: latest-value AsyncTask, whose slot is a
\* std::atomic<Progress> or, for a Progress that is not trivially copyable,
\* a mutex-guarded ThreadSafeContainer; or AsyncTaskPQ, whose queue is
\* mutex-guarded, with an isLastProgressShouldBeOverride that always
\* answers `merge`.
Subclasses ==
  { [variant |-> "AsyncTask",   merge |-> FALSE, mutex |-> FALSE],
    [variant |-> "AsyncTask",   merge |-> FALSE, mutex |-> TRUE],
    [variant |-> "AsyncTaskPQ", merge |-> FALSE, mutex |-> TRUE],
    [variant |-> "AsyncTaskPQ", merge |-> TRUE,  mutex |-> TRUE] }

VARIABLES
  subclass,      \* the instantiated subclass (fixed at construction)
  mStatus,       \* Status mStatus
  mResult,       \* Result mResult
  futValid,      \* mFuture.valid()
  futReady,      \* the shared state of mFuture holds the worker's return value
  futValue,      \* that return value
  atCancelled,   \* std::atomic_bool atCancelled
  isExceptionRethrowNeededOnMainThread,
  eptr,          \* std::exception_ptr eptr
  mProgress,     \* AsyncTask::mProgress
  mProgressQueue,\* AsyncTaskPQ::mProgressQueue
  mMutex,        \* holder of the mMutex of the progress container
  wpc,           \* position of the worker lambda
  wi,            \* next snapshot doInBackground publishes
  wval,          \* value the worker lambda is about to return
  wexc,          \* exception in flight on the worker
  opc,           \* position of the owner thread
  \* ---- observation log (not program state) ----
  tick,          \* flips at every owner step
  lastOp,        \* the owner call the last owner step belongs to
  lastExc,       \* what that step raised to the caller ("none": nothing)
  lastRet,       \* what it returned
  nPreExecute, nPostExecute, nCancelled, nSpawn, nRethrow,
  nDoInBackground, nPostResultOverride,
  hookArg,       \* argument of the completion hook
  cancelCalled,  \* the owner's cancel() has returned
  failed,        \* the worker lambda has caught a failure
  published,     \* snapshots accepted by storeProgress, in order
  delivered,     \* arguments of onProgressUpdate, in order
  tornAccess     \* the worker used subclass state after its teardown began

progVars  == <<subclass, mStatus, mResult, futValid, futReady, futValue,
               atCancelled, isExceptionRethrowNeededOnMainThread, eptr,
               mProgress, mProgressQueue, mMutex>>
workVars  == <<wpc, wi, wval, wexc>>
ownerLog  == <<tick, lastOp, lastExc, lastRet>>
hookLog   == <<nPreExecute, nPostExecute, nCancelled, hookArg>>
workLog   == <<nDoInBackground, nPostResultOverride, failed, published, tornAccess>>
vars == <<progVars, workVars, opc, ownerLog, hookLog, workLog,
          nSpawn, nRethrow, cancelCalled, delivered>>

\* --------------------------------------------------------------- Init
Init ==
  /\ subclass \in Subclasses
  /\ mStatus = "PENDING"
  /\ mResult = DefaultResult
  /\ futValid = FALSE /\ futReady = FALSE /\ futValue = DefaultResult
  /\ atCancelled = FALSE
  /\ isExceptionRethrowNeededOnMainThread = FALSE
  /\ eptr = NullEptr
  /\ mProgress = DefaultProgress
  /\ mProgressQueue = <<>>
  /\ mMutex = "free"
  /\ wpc = "none" /\ wi = 1 /\ wval = DefaultResult /\ wexc = NullEptr
  /\ opc = "live"
  /\ tick = FALSE /\ lastOp = "none" /\ lastExc = "none" /\ lastRet = NoRet
  /\ nPreExecute = 0 /\ nPostExecute = 0 /\ nCancelled = 0
  /\ nSpawn = 0 /\ nRethrow = 0
  /\ nDoInBackground = 0 /\ nPostResultOverride = 0
  /\ hookArg = NoRet
  /\ cancelCalled = FALSE
  /\ failed = FALSE
  /\ published = <<>>
  /\ delivered = <<>>
  /\ tornAccess = FALSE

\* The owner step of call `op` ends by raising `exc` or returning `ret`.
Returns(op, exc, ret) ==
  /\ tick' = ~tick
  /\ lastOp' = op
  /\ lastExc' = exc
  /\ lastRet' = ret

\* The subclass part of the object exists until its destructor has run.
DerivedAlive == opc \in {"live", "get_wait", "poll_wait"}

\* ------------------------------------------------------ owner: execute
\* The switch at the head of execute(): "ok" or the exception it throws.
ExecuteCheckAllowRunning(status) ==
  CASE status = "PENDING"  -> "ok"
    [] status = "RUNNING"  -> "ok"
    [] status = "FINISHED" -> "TaskIsAlreadyFinished"

ExecuteCheck(status) ==
  CASE status = "PENDING"  -> "ok"
    [] status = "RUNNING"  -> "TaskIsAlreadyRunning"
    [] status = "FINISHED" -> "TaskIsAlreadyFinished"

executeNoPreExecute ==
  /\ opc = "live"
  /\ IF ExecuteCheck(mStatus) # "ok"
     THEN /\ Returns("execute", ExecuteCheck(mStatus), NoRet)
          /\ UNCHANGED <<progVars, workVars, opc, hookLog, workLog,
                         nSpawn, nRethrow, cancelCalled, delivered>>
     ELSE /\ mStatus' = "RUNNING"
          /\ nPreExecute' = nPreExecute
          /\ \E raises \in BOOLEAN :
               IF raises
               THEN /\ Returns("execute", "hook", NoRet)
                    /\ UNCHANGED <<futValid, wpc, nSpawn>>
               ELSE /\ futValid' = TRUE
                    /\ wpc' = "start"
                    /\ nSpawn' = nSpawn + 1
                    /\ Returns("execute", "none", NoRet)
          /\ UNCHANGED <<subclass, mResult, futReady, futValue, atCancelled,
                         isExceptionRethrowNeededOnMainThread, eptr,
                         mProgress, mProgressQueue, mMutex, wi, wval, wexc,
                         opc, nPostExecute, nCancelled, hookArg, workLog,
                         nRethrow, cancelCalled, delivered>>

\* execute(): status check, mStatus = RUNNING, onPreExecute(), std::async.
\* A raising onPreExecute leaves RUNNING behind without a worker.
execute ==
  /\ opc = "live"
  /\ IF ExecuteCheck(mStatus) # "ok"
     THEN /\ Returns("execute", ExecuteCheck(mStatus), NoRet)
          /\ UNCHANGED <<progVars, workVars, opc, hookLog, workLog,
                         nSpawn, nRethrow, cancelCalled, delivered>>
     ELSE /\ mStatus' = "RUNNING"
          /\ nPreExecute' = nPreExecute + 1
          /\ \E raises \in BOOLEAN :
               IF raises
               THEN /\ Returns("execute", "hook", NoRet)
                    /\ UNCHANGED <<futValid, wpc, nSpawn>>
               ELSE /\ futValid' = TRUE
                    /\ wpc' = "start"
                    /\ nSpawn' = nSpawn + 1
                    /\ Returns("execute", "none", NoRet)
          /\ UNCHANGED <<subclass, mResult, futReady, futValue, atCancelled,
                         isExceptionRethrowNeededOnMainThread, eptr,
                         mProgress, mProgressQueue, mMutex, wi, wval, wexc,
                         opc, nPostExecute, nCancelled, hookArg, workLog,
                         nRethrow, cancelCalled, delivered>>

\* ------------------------------------------- owner: cancel and observers
CancelToggle ==
  /\ opc = "live"
  /\ atCancelled' = ~atCancelled
  /\ cancelCalled' = TRUE
  /\ Returns("cancel", "none", NoRet)
  /\ UNCHANGED <<subclass, mStatus, mResult, futValid, futReady, futValue,
                 isExceptionRethrowNeededOnMainThread, eptr, mProgress,
                 mProgressQueue, mMutex, workVars, opc, hookLog, workLog,
                 nSpawn, nRethrow, delivered>>

\* cancel(): atCancelled.store(true).
cancel ==
  /\ opc = "live"
  /\ atCancelled' = TRUE
  /\ cancelCalled' = TRUE
  /\ Returns("cancel", "none", NoRet)
  /\ UNCHANGED <<subclass, mStatus, mResult, futValid, futReady, futValue,
                 isExceptionRethrowNeededOnMainThread, eptr, mProgress,
                 mProgressQueue, mMutex, workVars, opc, hookLog, workLog,
                 nSpawn, nRethrow, delivered>>

StatusOrd(s) == CASE s = "PENDING" -> 0 [] s = "RUNNING" -> 1 [] s = "FINISHED" -> 2
BoolRet(b) == IF b THEN 1 ELSE 0

\* getStatus(): returns mStatus.
getStatus ==
  /\ opc = "live"
  /\ Returns("getStatus", "none", StatusOrd(mStatus))
  /\ UNCHANGED <<progVars, workVars, opc, hookLog, workLog,
                 nSpawn, nRethrow, cancelCalled, delivered>>

\* isCancelled() on the owner: returns atCancelled.load().
isCancelled ==
  /\ opc = "live"
  /\ Returns("isCancelled", "none", BoolRet(atCancelled))
  /\ UNCHANGED <<progVars, workVars, opc, hookLog, workLog,
                 nSpawn, nRethrow, cancelCalled, delivered>>

\* ------------------------------------------------------- owner: finish
\* The completion hooks finish() calls when isCancelled() answers c.
FinishHooksNoElse(c) ==
  IF c THEN {"onCancelled"} ELSE {"onPostExecute", "onCancelled"}

FinishHooksSwapped(c) ==
  IF c THEN {"onPostExecute"} ELSE {"onCancelled"}

FinishHooks(c) ==
  IF c THEN {"onCancelled"} ELSE {"onPostExecute"}

\* The condition of the rethrow at the end of finish().
RethrowNever(flag, e) == FALSE

RethrowNeeded(flag, e) == flag /\ e # NullEptr

finishDrain(op, result) ==
  /\ futValid' = FALSE
  /\ mResult' = result
  /\ hookArg' = result
  /\ nCancelled' = nCancelled +
        (IF "onCancelled" \in FinishHooks(atCancelled) THEN 1 ELSE 0)
  /\ nPostExecute' = nPostExecute +
        (IF "onPostExecute" \in FinishHooks(atCancelled) THEN 1 ELSE 0)
  /\ \E raises \in BOOLEAN :
       IF raises
       THEN /\ mStatus' = mStatus
            /\ nRethrow' = nRethrow
            /\ Returns(op, "hook", NoRet)
       ELSE /\ mStatus' = "FINISHED"
            /\ IF RethrowNeeded(isExceptionRethrowNeededOnMainThread, eptr)
               THEN /\ nRethrow' = nRethrow + 1
                    /\ Returns(op, eptr, NoRet)
               ELSE /\ nRethrow' = nRethrow
                    /\ Returns(op, "none", IF op = "get" THEN result ELSE 1)
  /\ delivered' = delivered \o mProgressQueue
  /\ mProgressQueue' = <<>>
  /\ UNCHANGED <<subclass, futReady, futValue, atCancelled,
                 isExceptionRethrowNeededOnMainThread, eptr, mProgress,
                 mMutex, workVars, nPreExecute, workLog, nSpawn,
                 cancelCalled>>

\* finish(result) called from `op` with the value mFuture.get() returned:
\* mResult = result, one completion hook, mStatus = FINISHED, rethrow.
\* A raising hook leaves finish() before the status is set.
finish(op, result) ==
  /\ futValid' = FALSE
  /\ mResult' = result
  /\ hookArg' = result
  /\ nCancelled' = nCancelled +
        (IF "onCancelled" \in FinishHooks(atCancelled) THEN 1 ELSE 0)
  /\ nPostExecute' = nPostExecute +
        (IF "onPostExecute" \in FinishHooks(atCancelled) THEN 1 ELSE 0)
  /\ \E raises \in BOOLEAN :
       IF raises
       THEN /\ mStatus' = mStatus
            /\ nRethrow' = nRethrow
            /\ Returns(op, "hook", NoRet)
       ELSE /\ mStatus' = "FINISHED"
            /\ IF RethrowNeeded(isExceptionRethrowNeededOnMainThread, eptr)
               THEN /\ nRethrow' = nRethrow + 1
                    /\ Returns(op, eptr, NoRet)
               ELSE /\ nRethrow' = nRethrow
                    /\ Returns(op, "none", IF op = "get" THEN result ELSE 1)
  /\ UNCHANGED <<subclass, futReady, futValue, atCancelled,
                 isExceptionRethrowNeededOnMainThread, eptr, mProgress,
                 mProgressQueue, mMutex, workVars, nPreExecute, workLog, nSpawn,
                 cancelCalled, delivered>>

\* ---------------------------------------------------------- owner: get
\* mFuture.get(): the value of a valid future.  On a future without shared
\* state the call is undefined: the standard libraries either throw
\* std::future_error(no_state) or dereference the null state.
FutureGetUnchecked(valid, value) ==
  { [kind |-> "value", v |-> IF valid THEN value ELSE DefaultResult] }

FutureGet(valid, value) ==
  IF valid
  THEN { [kind |-> "value", v |-> value] }
  ELSE { [kind |-> "future_error", v |-> DefaultResult],
         [kind |-> "crash", v |-> DefaultResult] }

\* finish(mFuture.get()) once the wait, if any, is over.
FinishFromFuture(op) ==
  \E o \in FutureGet(futValid, futValue) :
    CASE o.kind = "value" ->
           /\ finish(op, o.v)
           /\ opc' = "live"
      [] o.kind = "future_error" ->
           /\ Returns(op, "future_error", NoRet)
           /\ opc' = "live"
           /\ UNCHANGED <<progVars, workVars, hookLog, workLog,
                          nSpawn, nRethrow, cancelCalled, delivered>>
      [] o.kind = "crash" ->
           /\ Returns(op, "crash", NoRet)
           /\ opc' = "crashed"
           /\ UNCHANGED <<progVars, workVars, hookLog, workLog,
                          nSpawn, nRethrow, cancelCalled, delivered>>

\* get(): returns mResult when FINISHED, else finish(mFuture.get()); the
\* owner waits inside mFuture.get() while the worker has not returned.
get ==
  /\ opc = "live"
  /\ IF mStatus = "FINISHED"
     THEN /\ Returns("get", "none", mResult)
          /\ UNCHANGED <<progVars, workVars, opc, hookLog, workLog,
                         nSpawn, nRethrow, cancelCalled, delivered>>
     ELSE IF futValid /\ ~futReady
     THEN /\ opc' = "get_wait"
          /\ Returns("get", "none", NoRet)
          /\ UNCHANGED <<progVars, workVars, hookLog, workLog,
                         nSpawn, nRethrow, cancelCalled, delivered>>
     ELSE FinishFromFuture("get")

\* The end of the wait inside get().
getWake ==
  /\ opc = "get_wait"
  /\ futReady
  /\ FinishFromFuture("get")

\* ----------------------------------------------- owner: onCallbackLoop
\* mFuture.wait_for(0s) of a future launched with std::launch::async.
FutureWaitForAlwaysReady(ready) == "ready"

FutureWaitFor(ready) == IF ready THEN "ready" ELSE "timeout"

handleProgressKeep ==
  IF subclass.variant = "AsyncTask"
  THEN /\ delivered' = Append(delivered, mProgress)
       /\ UNCHANGED mProgressQueue
       /\ \E raises \in BOOLEAN :
            IF raises THEN Returns("onCallbackLoop", "hook", NoRet)
                      ELSE Returns("onCallbackLoop", "none", 0)
  ELSE /\ mProgressQueue' = mProgressQueue
       /\ \E k \in 0 .. Len(mProgressQueue) :
            IF k = 0
            THEN /\ delivered' = delivered \o mProgressQueue
                 /\ Returns("onCallbackLoop", "none", 0)
            ELSE /\ delivered' = delivered \o SubSeq(mProgressQueue, 1, k)
                 /\ Returns("onCallbackLoop", "hook", NoRet)

\* handleProgress(): AsyncTask calls onProgressUpdate(mProgress.load());
\* AsyncTaskPQ moves the queue out and calls onProgressUpdate on each item
\* in order; an item whose hook raises ends the loop and the call.  load()
\* and move() of the mutex-guarded containers take mMutex for their own
\* duration: the caller has found it free.
handleProgress ==
  IF subclass.variant = "AsyncTask"
  THEN /\ delivered' = Append(delivered, mProgress)
       /\ UNCHANGED mProgressQueue
       /\ \E raises \in BOOLEAN :
            IF raises THEN Returns("onCallbackLoop", "hook", NoRet)
                      ELSE Returns("onCallbackLoop", "none", 0)
  ELSE /\ mProgressQueue' = <<>>
       /\ \E k \in 0 .. Len(mProgressQueue) :
            IF k = 0
            THEN /\ delivered' = delivered \o mProgressQueue
                 /\ Returns("onCallbackLoop", "none", 0)
            ELSE /\ delivered' = delivered \o SubSeq(mProgressQueue, 1, k)
                 /\ Returns("onCallbackLoop", "hook", NoRet)

\* onCallbackLoop(): true when FINISHED, false when PENDING or without a
\* valid future, else progress (worker not ready) or finish (ready).
onCallbackLoop ==
  /\ opc = "live"
  /\ IF mStatus = "FINISHED"
     THEN /\ Returns("onCallbackLoop", "none", 1)
          /\ UNCHANGED <<progVars, workVars, opc, hookLog, workLog,
                         nSpawn, nRethrow, cancelCalled, delivered>>
     ELSE IF mStatus = "PENDING" \/ ~futValid
     THEN /\ Returns("onCallbackLoop", "none", 0)
          /\ UNCHANGED <<progVars, workVars, opc, hookLog, workLog,
                         nSpawn, nRethrow, cancelCalled, delivered>>
     ELSE IF FutureWaitFor(futReady) = "timeout"
     THEN /\ subclass.variant = "AsyncTask" => Len(delivered) < MaxDeliver
          /\ IF mMutex = "free"
             THEN /\ handleProgress
                  /\ UNCHANGED opc
             ELSE /\ opc' = "poll_wait"
                  /\ Returns("onCallbackLoop", "none", NoRet)
                  /\ UNCHANGED <<mProgressQueue, delivered>>
          /\ UNCHANGED <<subclass, mStatus, mResult, futValid, futReady,
                         futValue, atCancelled,
                         isExceptionRethrowNeededOnMainThread, eptr,
                         mProgress, mMutex, workVars, hookLog, workLog,
                         nSpawn, nRethrow, cancelCalled>>
     ELSE /\ finish("onCallbackLoop", futValue)
          /\ UNCHANGED opc

pollWakeWhenReady ==
  /\ opc = "poll_wait"
  /\ mMutex = "free"
  /\ futReady
  /\ handleProgress
  /\ opc' = "live"
  /\ UNCHANGED <<subclass, mStatus, mResult, futValid, futReady, futValue,
                 atCancelled, isExceptionRethrowNeededOnMainThread, eptr,
                 mProgress, mMutex, workVars, hookLog, workLog,
                 nSpawn, nRethrow, cancelCalled>>

\* The end of the wait for mMutex inside handleProgress().
pollWake ==
  /\ opc = "poll_wait"
  /\ mMutex = "free"
  /\ handleProgress
  /\ opc' = "live"
  /\ UNCHANGED <<subclass, mStatus, mResult, futValid, futReady, futValue,
                 atCancelled, isExceptionRethrowNeededOnMainThread, eptr,
                 mProgress, mMutex, workVars, hookLog, workLog,
                 nSpawn, nRethrow, cancelCalled>>

\* ---------------------------------------------------- owner: teardown
\* The destructors of the subclass and of AsyncTask / AsyncTaskPQ run
\* first: the subclass part and the progress storage are gone afterwards.
DtorDerived ==
  /\ opc = "live"
  /\ opc' = "dtor_base"
  /\ Returns("dtor", "none", NoRet)
  /\ UNCHANGED <<progVars, workVars, hookLog, workLog,
                 nSpawn, nRethrow, cancelCalled, delivered>>

DtorBaseAlwaysCancel ==
  /\ opc = "dtor_base"
  /\ Returns("dtor", "none", NoRet)
  /\ atCancelled' = TRUE
  /\ opc' = IF mStatus = "RUNNING" /\ futValid THEN "dtor_wait" ELSE "destroyed"
  /\ UNCHANGED <<subclass, mStatus, mResult, futValid, futReady, futValue,
                 isExceptionRethrowNeededOnMainThread, eptr, mProgress,
                 mProgressQueue, mMutex, workVars, hookLog, workLog,
                 nSpawn, nRethrow, cancelCalled, delivered>>

\* ~AsyncTaskBase(): nothing unless RUNNING; else cancel(), and wait for
\* the worker when the future is valid.
DtorBase ==
  /\ opc = "dtor_base"
  /\ Returns("dtor", "none", NoRet)
  /\ IF mStatus # "RUNNING"
     THEN /\ opc' = "destroyed"
          /\ UNCHANGED atCancelled
     ELSE /\ atCancelled' = TRUE
          /\ opc' = IF futValid THEN "dtor_wait" ELSE "destroyed"
  /\ UNCHANGED <<subclass, mStatus, mResult, futValid, futReady, futValue,
                 isExceptionRethrowNeededOnMainThread, eptr, mProgress,
                 mProgressQueue, mMutex, workVars, hookLog, workLog,
                 nSpawn, nRethrow, cancelCalled, delivered>>

DtorWaitFinish ==
  /\ opc = "dtor_wait"
  /\ futReady
  /\ opc' = "destroyed"
  /\ finish("dtor", futValue)

\* The end of mFuture.wait() in the destructor.
DtorWait ==
  /\ opc = "dtor_wait"
  /\ futReady
  /\ opc' = "destroyed"
  /\ Returns("dtor", "none", NoRet)
  /\ UNCHANGED <<progVars, workVars, hookLog, workLog,
                 nSpawn, nRethrow, cancelCalled, delivered>>

\* --------------------------------------------------------------- worker
\* The worker thread exists from std::async until the lambda has returned.
WorkerRuns == opc # "crashed"

\* The function a virtual call of the worker reaches.  While the subclass
\* part is alive it is the subclass's override.  Once the destructors have
\* started the call races with them: it reaches the base version or still
\* the override, which then runs on a torn-down subclass part.
Dispatch == IF DerivedAlive THEN {"derived"} ELSE {"base", "derived"}

\* Head of the lambda: `if (isCancelled()) return {};`.
WorkerStart ==
  /\ WorkerRuns
  /\ wpc = "start"
  /\ IF atCancelled
     THEN wpc' = "ret" /\ wval' = DefaultResult
     ELSE wpc' = "invoke" /\ UNCHANGED wval
  /\ UNCHANGED <<progVars, wi, wexc, opc, ownerLog, hookLog, workLog,
                 nSpawn, nRethrow, cancelCalled, delivered>>

\* The call of doInBackground, pure virtual in AsyncTaskBase.
WorkerInvoke ==
  /\ WorkerRuns
  /\ wpc = "invoke"
  /\ \E d \in Dispatch :
       IF d = "derived"
       THEN /\ wpc' = "body"
            /\ nDoInBackground' = nDoInBackground + 1
            /\ tornAccess' = (tornAccess \/ ~DerivedAlive)
            /\ UNCHANGED opc
       ELSE /\ opc' = "crashed"
            /\ UNCHANGED <<wpc, nDoInBackground, tornAccess>>
  /\ UNCHANGED <<progVars, wi, wval, wexc, ownerLog, hookLog,
                 nPostResultOverride, failed, published,
                 nSpawn, nRethrow, cancelCalled, delivered>>

\* publishProgress(wi) in doInBackground: `if (isCancelled()) return;`.
WorkerPublish ==
  /\ WorkerRuns
  /\ wpc = "body"
  /\ wi <= MaxPublish
  /\ IF atCancelled
     THEN wi' = wi + 1 /\ UNCHANGED wpc
     ELSE wpc' = "store" /\ UNCHANGED wi
  /\ UNCHANGED <<progVars, wval, wexc, opc, ownerLog, hookLog, workLog,
                 nSpawn, nRethrow, cancelCalled, delivered>>

QueueStoreNoMerge(q, data, merge) == Append(q, data)

\* ThreadSafeQueue::store: push, or replace the tail when the predicate
\* says so.
QueueStore(q, data, merge) ==
  IF q = <<>> \/ ~merge THEN Append(q, data)
                        ELSE [q EXCEPT ![Len(q)] = data]

WorkerStoreStale ==
  /\ WorkerRuns
  /\ wpc = "store"
  /\ \E d \in Dispatch :
       IF d = "base"
       THEN /\ wpc' = "body" /\ wi' = wi + 1
            /\ UNCHANGED <<mProgress, mMutex, published, tornAccess>>
       ELSE /\ tornAccess' = (tornAccess \/ ~DerivedAlive)
            /\ IF subclass.mutex
               THEN /\ mMutex = "free"
                    /\ mMutex' = "worker"
                    /\ wpc' = "locked"
                    /\ UNCHANGED <<mProgress, published, wi>>
               ELSE /\ mProgress' = mProgress
                    /\ published' = Append(published, wi)
                    /\ wpc' = "body" /\ wi' = wi + 1
                    /\ UNCHANGED mMutex
  /\ UNCHANGED <<subclass, mStatus, mResult, futValid, futReady, futValue,
                 atCancelled, isExceptionRethrowNeededOnMainThread, eptr,
                 mProgressQueue, wval, wexc, opc, ownerLog, hookLog,
                 nDoInBackground, nPostResultOverride, failed,
                 nSpawn, nRethrow, cancelCalled, delivered>>

\* this->storeProgress(wi): the base version does nothing; AsyncTask
\* stores into mProgress, at once when it is a std::atomic, else under
\* mMutex; AsyncTaskPQ stores into mProgressQueue under mMutex.  The step
\* of a mutex-guarded container takes the lock.
WorkerStore ==
  /\ WorkerRuns
  /\ wpc = "store"
  /\ \E d \in Dispatch :
       IF d = "base"
       THEN /\ wpc' = "body" /\ wi' = wi + 1
            /\ UNCHANGED <<mProgress, mMutex, published, tornAccess>>
       ELSE /\ tornAccess' = (tornAccess \/ ~DerivedAlive)
            /\ IF subclass.mutex
               THEN /\ mMutex = "free"
                    /\ mMutex' = "worker"
                    /\ wpc' = "locked"
                    /\ UNCHANGED <<mProgress, published, wi>>
               ELSE /\ mProgress' = wi
                    /\ published' = Append(published, wi)
                    /\ wpc' = "body" /\ wi' = wi + 1
                    /\ UNCHANGED mMutex
  /\ UNCHANGED <<subclass, mStatus, mResult, futValid, futReady, futValue,
                 atCancelled, isExceptionRethrowNeededOnMainThread, eptr,
                 mProgressQueue, wval, wexc, opc, ownerLog, hookLog,
                 nDoInBackground, nPostResultOverride, failed,
                 nSpawn, nRethrow, cancelCalled, delivered>>

WorkerStoreLockedLeak ==
  /\ WorkerRuns
  /\ wpc = "locked"
  /\ mMutex' = mMutex
  /\ tornAccess' = (tornAccess \/ ~DerivedAlive)
  /\ \E raises \in BOOLEAN :
       IF raises
       THEN /\ wpc' = "catch_cancel"
            /\ wexc' = "storeProgress"
            /\ failed' = TRUE
            /\ UNCHANGED <<mProgress, mProgressQueue, published, wi>>
       ELSE /\ wpc' = "body" /\ wi' = wi + 1
            /\ published' = Append(published, wi)
            /\ IF subclass.variant = "AsyncTask"
               THEN /\ mProgress' = wi
                    /\ UNCHANGED mProgressQueue
               ELSE /\ mProgressQueue' =
                         QueueStore(mProgressQueue, wi, subclass.merge)
                    /\ UNCHANGED mProgress
            /\ UNCHANGED <<wexc, failed>>
  /\ UNCHANGED <<subclass, mStatus, mResult, futValid, futReady, futValue,
                 atCancelled, isExceptionRethrowNeededOnMainThread, eptr,
                 wval, opc, ownerLog, hookLog, nDoInBackground,
                 nPostResultOverride, nSpawn, nRethrow,
                 cancelCalled, delivered>>

\* Under the lock: ThreadSafeContainer::store assigns mData,
\* ThreadSafeQueue::store asks the predicate and pushes or replaces the
\* tail; copying the snapshot may raise.  The lock is released on both
\* ways out.
WorkerStoreLocked ==
  /\ WorkerRuns
  /\ wpc = "locked"
  /\ mMutex' = "free"
  /\ tornAccess' = (tornAccess \/ ~DerivedAlive)
  /\ \E raises \in BOOLEAN :
       IF raises
       THEN /\ wpc' = "catch_cancel"
            /\ wexc' = "storeProgress"
            /\ failed' = TRUE
            /\ UNCHANGED <<mProgress, mProgressQueue, published, wi>>
       ELSE /\ wpc' = "body" /\ wi' = wi + 1
            /\ published' = Append(published, wi)
            /\ IF subclass.variant = "AsyncTask"
               THEN /\ mProgress' = wi
                    /\ UNCHANGED mProgressQueue
               ELSE /\ mProgressQueue' =
                         QueueStore(mProgressQueue, wi, subclass.merge)
                    /\ UNCHANGED mProgress
            /\ UNCHANGED <<wexc, failed>>
  /\ UNCHANGED <<subclass, mStatus, mResult, futValid, futReady, futValue,
                 atCancelled, isExceptionRethrowNeededOnMainThread, eptr,
                 wval, opc, ownerLog, hookLog, nDoInBackground,
                 nPostResultOverride, nSpawn, nRethrow,
                 cancelCalled, delivered>>

\* doInBackground returns: 0 once it has seen isCancelled(), else 1.
WorkerReturn ==
  /\ WorkerRuns
  /\ wpc = "body"
  /\ \E r \in {0, 1} :
       /\ r = 0 => atCancelled
       /\ wval' = r
  /\ wpc' = "post"
  /\ UNCHANGED <<progVars, wi, wexc, opc, ownerLog, hookLog, workLog,
                 nSpawn, nRethrow, cancelCalled, delivered>>

\* doInBackground raises.
WorkerThrow ==
  /\ WorkerRuns
  /\ wpc = "body"
  /\ wpc' = "catch_cancel"
  /\ wexc' = "doInBackground"
  /\ failed' = TRUE
  /\ UNCHANGED <<progVars, wi, wval, opc, ownerLog, hookLog,
                 nDoInBackground, nPostResultOverride, published, tornAccess,
                 nSpawn, nRethrow, cancelCalled, delivered>>

\* this->postResult(...): the base version returns its argument; the
\* subclass override logs the call, returns its argument, or raises.
WorkerPostResult ==
  /\ WorkerRuns
  /\ wpc = "post"
  /\ \E d \in Dispatch, raises \in BOOLEAN :
       IF d = "base"
       THEN /\ ~raises
            /\ wpc' = "ret"
            /\ UNCHANGED <<wexc, failed, nPostResultOverride, tornAccess>>
       ELSE /\ nPostResultOverride' = nPostResultOverride + 1
            /\ tornAccess' = (tornAccess \/ ~DerivedAlive)
            /\ IF raises
               THEN /\ wpc' = "catch_cancel"
                    /\ wexc' = "postResult"
                    /\ failed' = TRUE
               ELSE /\ wpc' = "ret"
                    /\ UNCHANGED <<wexc, failed>>
  /\ UNCHANGED <<progVars, wi, wval, opc, ownerLog, hookLog,
                 nDoInBackground, published,
                 nSpawn, nRethrow, cancelCalled, delivered>>

\* catch (...): cancel();
WorkerCatchSkipCancel ==
  /\ WorkerRuns
  /\ wpc = "catch_cancel"
  /\ wpc' = "catch_flag"
  /\ UNCHANGED <<progVars, wi, wval, wexc, opc, ownerLog, hookLog, workLog,
                 nSpawn, nRethrow, cancelCalled, delivered>>

WorkerCatchCancel ==
  /\ WorkerRuns
  /\ wpc = "catch_cancel"
  /\ atCancelled' = TRUE
  /\ wpc' = "catch_flag"
  /\ UNCHANGED <<subclass, mStatus, mResult, futValid, futReady, futValue,
                 isExceptionRethrowNeededOnMainThread, eptr, mProgress,
                 mProgressQueue, mMutex, wi, wval, wexc, opc, ownerLog, hookLog,
                 workLog, nSpawn, nRethrow, cancelCalled, delivered>>

\* isExceptionRethrowNeededOnMainThread.store(true);
WorkerCatchFlag ==
  /\ WorkerRuns
  /\ wpc = "catch_flag"
  /\ isExceptionRethrowNeededOnMainThread' = TRUE
  /\ wpc' = "catch_eptr"
  /\ UNCHANGED <<subclass, mStatus, mResult, futValid, futReady, futValue,
                 atCancelled, eptr, mProgress, mProgressQueue, mMutex, wi, wval,
                 wexc, opc, ownerLog, hookLog, workLog, nSpawn, nRethrow,
                 cancelCalled, delivered>>

\* eptr = std::current_exception(); then `return {};` after the handler.
WorkerCatchEptr ==
  /\ WorkerRuns
  /\ wpc = "catch_eptr"
  /\ eptr' = wexc
  /\ wval' = DefaultResult
  /\ wpc' = "ret"
  /\ UNCHANGED <<subclass, mStatus, mResult, futValid, futReady, futValue,
                 atCancelled, isExceptionRethrowNeededOnMainThread,
                 mProgress, mProgressQueue, mMutex, wi, wexc, opc, ownerLog, hookLog,
                 workLog, nSpawn, nRethrow, cancelCalled, delivered>>

WorkerCompleteDefault ==
  /\ WorkerRuns
  /\ wpc = "ret"
  /\ futReady' = TRUE
  /\ futValue' = DefaultResult
  /\ wpc' = "done"
  /\ UNCHANGED <<subclass, mStatus, mResult, futValid, atCancelled,
                 isExceptionRethrowNeededOnMainThread, eptr, mProgress,
                 mProgressQueue, mMutex, wi, wval, wexc, opc, ownerLog, hookLog,
                 workLog, nSpawn, nRethrow, cancelCalled, delivered>>

\* The lambda returns: the future becomes ready with the returned value.
WorkerComplete ==
  /\ WorkerRuns
  /\ wpc = "ret"
  /\ futReady' = TRUE
  /\ futValue' = wval
  /\ wpc' = "done"
  /\ UNCHANGED <<subclass, mStatus, mResult, futValid, atCancelled,
                 isExceptionRethrowNeededOnMainThread, eptr, mProgress,
                 mProgressQueue, mMutex, wi, wval, wexc, opc, ownerLog, hookLog,
                 workLog, nSpawn, nRethrow, cancelCalled, delivered>>

\* ------------------------------------------------------- specification
Owner ==
  \/ execute
  \/ cancel
  \/ getStatus
  \/ isCancelled
  \/ get
  \/ getWake
  \/ onCallbackLoop
  \/ pollWake
  \/ DtorDerived
  \/ DtorBase
  \/ DtorWait

Worker ==
  \/ WorkerStart
  \/ WorkerInvoke
  \/ WorkerPublish
  \/ WorkerStore
  \/ WorkerStoreLocked
  \/ WorkerReturn
  \/ WorkerThrow
  \/ WorkerPostResult
  \/ WorkerCatchCancel
  \/ WorkerCatchFlag
  \/ WorkerCatchEptr
  \/ WorkerComplete

Next == Owner \/ Worker

Spec == Init /\ [][Next]_vars

\* Scheduling: the worker thread keeps running until its lambda has
\* returned, and an owner blocked in a wait resumes once the wait is over;
\* the destructor, once entered, runs on.  Which calls the owner makes, and
\* when, is not constrained.
Fairness ==
  /\ WF_vars(Worker)
  /\ WF_vars(getWake)
  /\ WF_vars(pollWake)
  /\ WF_vars(DtorBase)
  /\ WF_vars(DtorWait)

FairSpec == Spec /\ Fairness

\* An owner that, after execute(), only polls: it calls onCallbackLoop()
\* again and again (and may request cancellation), never get(), and keeps
\* the object alive.
NextPoll ==
  \/ execute
  \/ cancel
  \/ onCallbackLoop
  \/ pollWake
  \/ Worker

PollSpec ==
  /\ Init
  /\ [][NextPoll]_vars
  /\ WF_vars(Worker)
  /\ WF_vars(onCallbackLoop)
  /\ WF_vars(pollWake)

TypeOK ==
  /\ subclass \in Subclasses
  /\ mStatus \in StatusSet
  /\ mResult \in {0, 1}
  /\ futValid \in BOOLEAN /\ futReady \in BOOLEAN /\ futValue \in {0, 1}
  /\ atCancelled \in BOOLEAN
  /\ isExceptionRethrowNeededOnMainThread \in BOOLEAN
  /\ eptr \in WorkerFailures \cup {NullEptr}
  /\ mProgress \in 0 .. MaxPublish
  /\ mProgressQueue \in Seq(1 .. MaxPublish)
  /\ mMutex \in {"free", "worker"}
  /\ wpc \in {"none", "start", "invoke", "body", "store", "locked", "post",
              "catch_cancel", "catch_flag", "catch_eptr", "ret", "done"}
  /\ wi \in 1 .. MaxPublish + 1
  /\ opc \in {"live", "get_wait", "poll_wait", "dtor_base", "dtor_wait",
              "destroyed",
              "crashed"}

\* ================================================================ claims
\* The step is a step of the owner inside the call `op`.
OwnerStep(op) == tick' # tick /\ lastOp' = op

HooksRun == nPostExecute + nCancelled

\* C1: over every step of the owner and of the worker the status stays or
\* moves PENDING -> RUNNING or RUNNING -> FINISHED; it never decreases,
\* never goes from PENDING to FINISHED and never leaves FINISHED.
C1_StatusMonotonic ==
  [][ \/ mStatus' = mStatus
      \/ mStatus = "PENDING" /\ mStatus' = "RUNNING"
      \/ mStatus = "RUNNING" /\ mStatus' = "FINISHED" ]_vars

\* A FINISHED task on which cancel() and teardown have acted as well.
C1_Witness ==
  mStatus = "FINISHED" /\ cancelCalled /\ opc = "destroyed"

\* C2: whenever the status is FINISHED the worker lambda has returned (its
\* value is in the future and a caught failure is in eptr), and a get()
\* that has returned did so after the worker had returned.
C2_FinishedAfterWorker ==
  /\ mStatus = "FINISHED" =>
       /\ wpc = "done"
       /\ futReady
       /\ failed => eptr = wexc
  /\ (lastOp = "get" /\ opc = "live" /\ lastExc = "none") => wpc = "done"

\* get() has waited for a computation that ran and has returned its result.
C2_Witness ==
  /\ mStatus = "FINISHED" /\ lastOp = "get" /\ opc = "live"
  /\ lastRet = 1 /\ nDoInBackground = 1

\* C3: execute() on a RUNNING task raises TaskIsAlreadyRunning, on a
\* FINISHED one TaskIsAlreadyFinished; the failed call changes no field of
\* the task, runs no hook and starts no worker; at most one worker is
\* started and onPreExecute runs at most once.
C3_ExecuteOnce ==
  [][ /\ (OwnerStep("execute") /\ mStatus # "PENDING") =>
           /\ lastExc' = (IF mStatus = "RUNNING" THEN "TaskIsAlreadyRunning"
                                                 ELSE "TaskIsAlreadyFinished")
           /\ UNCHANGED <<progVars, workVars, opc, hookLog, workLog,
                          nSpawn, nRethrow, delivered>>
      /\ nSpawn' <= 1
      /\ nPreExecute' <= 1 ]_vars

\* A second execute() was refused after the first activation delivered 1.
C3_Witness ==
  /\ lastOp = "execute" /\ lastExc = "TaskIsAlreadyFinished"
  /\ mStatus = "FINISHED" /\ mResult = 1 /\ nSpawn = 1

\* C4: onPostExecute and onCancelled together are called at most once, and
\* exactly once when the status is FINISHED.
C4_OneCompletionHook ==
  /\ HooksRun <= 1
  /\ mStatus = "FINISHED" => HooksRun = 1

\* The task was finished by a poll and then polled, cancelled and destroyed.
C4_Witness ==
  /\ mStatus = "FINISHED" /\ nPostExecute = 1 /\ nCancelled = 0
  /\ cancelCalled /\ opc = "destroyed"

\* C5: the step that runs a completion hook runs onCancelled exactly when
\* the cancellation flag is set at that step: after a cancel() that has
\* returned it is onCancelled alone; without any cancel() and without a
\* failure it is onPostExecute alone, and onCancelled is never called.
C5_HookFollowsFlag ==
  [][ /\ (HooksRun' > HooksRun) =>
           /\ (nCancelled' > nCancelled) <=> atCancelled
           /\ cancelCalled =>
                (nCancelled' = nCancelled + 1 /\ nPostExecute' = nPostExecute)
           /\ (~cancelCalled /\ ~failed) =>
                (nPostExecute' = nPostExecute + 1 /\ nCancelled' = nCancelled)
      /\ (~cancelCalled' /\ ~failed') => nCancelled' = 0 ]_vars

\* cancel() came after the worker had completed with 1: onCancelled(1).
C5_Witness ==
  /\ nCancelled = 1 /\ nPostExecute = 0 /\ hookArg = 1
  /\ cancelCalled /\ ~failed

\* C6: no step resets the cancellation flag; the flag is set when cancel()
\* returns and in every state after that, isCancelled() then answers true,
\* and a cancel() on a set flag changes nothing.
C6_CancelMonotonic ==
  [][ /\ atCancelled => atCancelled'
      /\ cancelCalled' => atCancelled'
      /\ (OwnerStep("isCancelled") /\ cancelCalled) => lastRet' = 1
      /\ (OwnerStep("cancel") /\ atCancelled) =>
           UNCHANGED <<progVars, workVars, opc, hookLog, workLog,
                       nSpawn, nRethrow, delivered>> ]_vars

\* cancel() on a PENDING task, whose flag survived execute and finish.
C6_Witness ==
  /\ cancelCalled /\ nDoInBackground = 0 /\ mStatus = "FINISHED"
  /\ lastOp = "isCancelled" /\ lastRet = 1

\* C7: a failure of the worker is raised to the owner at most once, by the
\* get() or onCallbackLoop() step that moves the status to FINISHED, and
\* that step does raise it; get() and onCallbackLoop() on a FINISHED task
\* raise nothing.
C7_RethrowOnce ==
  [][ /\ nRethrow' <= 1
      /\ (nRethrow' # nRethrow) =>
           /\ tick' # tick /\ lastOp' \in {"get", "onCallbackLoop"}
           /\ mStatus = "RUNNING" /\ mStatus' = "FINISHED"
           /\ failed /\ lastExc' = wexc
      /\ (mStatus = "RUNNING" /\ mStatus' = "FINISHED" /\ failed) =>
           nRethrow' = nRethrow + 1
      /\ (mStatus = "FINISHED" /\ tick' # tick
            /\ lastOp' \in {"get", "onCallbackLoop"}) =>
           lastExc' = "none" ]_vars

\* The failure was raised once and a later get() has returned normally.
C7_Witness ==
  /\ nRethrow = 1 /\ mStatus = "FINISHED"
  /\ lastOp = "get" /\ lastExc = "none" /\ lastRet = DefaultResult
  /\ eptr = "postResult"

\* C8: once the worker that caught a failure is ready the cancellation
\* flag is set and its value is Result{}; the completion hook run after a
\* failure is onCancelled with Result{}, never onPostExecute.
C8_FailureForcesCancel ==
  /\ (failed /\ futReady) => (atCancelled /\ futValue = DefaultResult)
  /\ (failed /\ HooksRun > 0) =>
       (nCancelled = 1 /\ nPostExecute = 0 /\ hookArg = DefaultResult)

\* onCancelled ran after a failure although the owner never called cancel().
C8_Witness ==
  failed /\ nCancelled = 1 /\ ~cancelCalled /\ mStatus = "FINISHED"

C10_TeardownNoFinish ==
  [][ OwnerStep("dtor") =>
        /\ UNCHANGED <<mStatus, mResult, futValid, hookLog, nRethrow>>
        /\ mStatus # "RUNNING" => UNCHANGED atCancelled
        /\ (mStatus = "RUNNING" /\ opc = "dtor_base") => atCancelled'
        /\ (mStatus = "RUNNING" /\ opc' = "destroyed") =>
             (atCancelled' /\ wpc' \in {"none", "done"}) ]_vars

\* A RUNNING task whose worker ran was destroyed: flag set by the
\* destructor, worker done, no hook.
C10_Witness ==
  /\ opc = "destroyed" /\ mStatus = "RUNNING" /\ wpc = "done"
  /\ nDoInBackground = 1 /\ atCancelled /\ ~cancelCalled /\ ~failed
  /\ HooksRun = 0

\* C11: the worker never runs a subclass hook and never touches the
\* progress slot or queue once the subclass part of the task has been torn
\* down.
C11_NoAccessAfterTeardown == ~tornAccess

\* C12: under fair scheduling the destructor of a RUNNING task, once
\* entered, runs to its end: the wait for the worker is over after the
\* worker, which returns once it sees the cancellation flag, has returned.
C12_TeardownCompletes ==
  (opc \in {"dtor_base", "dtor_wait"}) ~> (opc = "destroyed")

\* C13: an onCallbackLoop() that returns normally returns false on a
\* PENDING task; true, changing nothing, on a FINISHED one; on a RUNNING
\* one true exactly if it found the worker ready, and then the status is
\* FINISHED, else false with the status still RUNNING; in every case it
\* returns true exactly if the status is FINISHED on return.
C13_PollResult ==
  [][ (OwnerStep("onCallbackLoop") /\ opc' = "live" /\ lastExc' = "none") =>
        /\ mStatus = "PENDING" => lastRet' = 0
        /\ mStatus = "FINISHED" =>
             /\ lastRet' = 1
             /\ UNCHANGED <<progVars, workVars, hookLog, workLog,
                            nSpawn, nRethrow, cancelCalled, delivered>>
        /\ mStatus = "RUNNING" =>
             /\ lastRet' = 1 <=> (opc = "live" /\ futReady)
             /\ lastRet' = 1 => mStatus' = "FINISHED"
             /\ lastRet' = 0 => mStatus' = "RUNNING"
        /\ lastRet' = 1 <=> mStatus' = "FINISHED" ]_vars

\* C14: once a worker has been spawned, an owner that keeps calling
\* onCallbackLoop() eventually sees the task FINISHED, under fair
\* scheduling of the owner's polling and of the worker.
C14_PollingTerminates == (nSpawn = 1) ~> (mStatus = "FINISHED")

\* The owner is suspended inside an operation until the worker has made a
\* step: until the future is ready, or until the worker has left the
\* critical section of the progress storage.
WaitsForWorker ==
  \/ opc \in {"get_wait", "dtor_wait"} /\ ~futReady
  \/ opc = "poll_wait" /\ mMutex = "worker"

\* C15: get() is the only owner operation that waits for the worker:
\* whenever the owner is suspended until a worker step, it is inside get();
\* and the wait of get() is over as soon as the future is ready.
C15_OnlyGetWaits ==
  /\ WaitsForWorker => (opc = "get_wait" /\ lastOp = "get")
  /\ (opc = "get_wait" /\ futReady) => ENABLED getWake

\* C15, as the code has it: execute(), cancel(), isCancelled() and
\* getStatus() never wait.  get() waits for the future and so does the
\* destructor of a RUNNING task with a valid future; both waits are over
\* as soon as the future is ready.  onCallbackLoop() never waits for the
\* future, but with mutex-guarded progress storage it waits while the
\* worker is inside the critical section of a store, and no longer.
C15_WaitPoints ==
  /\ lastOp \in {"execute", "cancel", "isCancelled", "getStatus"} =>
       opc \notin {"get_wait", "poll_wait", "dtor_wait"}
  /\ opc = "get_wait" => (lastOp = "get" /\ mStatus # "FINISHED")
  /\ (opc = "get_wait" /\ futReady) => ENABLED getWake
  /\ opc = "dtor_wait" =>
       (lastOp = "dtor" /\ mStatus = "RUNNING" /\ futValid)
  /\ (opc = "dtor_wait" /\ futReady) => ENABLED DtorWait
  /\ opc = "poll_wait" =>
       (lastOp = "onCallbackLoop" /\ subclass.mutex /\ mStatus = "RUNNING")
  /\ (opc = "poll_wait" /\ mMutex = "free") => ENABLED pollWake

C15_Witness ==
  /\ opc = "poll_wait" /\ mMutex = "worker" /\ ~futReady
  /\ lastOp = "onCallbackLoop"

\* C16: when doInBackground and postResult ran without failure, a get()
\* that returns, returns the value the worker computed; a get() on a
\* FINISHED task returns mResult at once, runs no hook and changes
\* nothing; and mResult of a FINISHED task never changes, so every later
\* get() returns the same value.
C16_GetValueIdempotent ==
  [][ /\ ( /\ OwnerStep("get") /\ opc' = "live" /\ lastExc' = "none"
           /\ nDoInBackground = 1 /\ ~failed ) =>
          (wpc = "done" /\ lastRet' = wval /\ lastRet' = mResult')
      /\ (OwnerStep("get") /\ mStatus = "FINISHED") =>
          /\ opc' = "live" /\ lastExc' = "none" /\ lastRet' = mResult
          /\ UNCHANGED <<progVars, workVars, hookLog, workLog,
                         nSpawn, nRethrow, cancelCalled, delivered>>
      /\ mStatus = "FINISHED" => mResult' = mResult ]_vars

C16_Witness ==
  /\ lastOp = "get" /\ lastExc = "none" /\ lastRet = 1
  /\ mStatus = "FINISHED" /\ mResult = 1 /\ wval = 1
  /\ nDoInBackground = 1 /\ ~failed
  /\ nPostExecute + nCancelled = 1

\* C17: a worker that finds the cancellation flag set at its start runs
\* neither doInBackground nor postResult and returns the default result;
\* and doInBackground never begins in a state where the flag is set.
C17_NoBodyAfterCancel ==
  [][ /\ (wpc = "start" /\ wpc' # "start" /\ atCancelled) =>
          /\ wpc' = "ret" /\ wval' = DefaultResult
          /\ nDoInBackground' = nDoInBackground
          /\ nPostResultOverride' = nPostResultOverride
      /\ (wpc = "ret" /\ nDoInBackground = 0) => UNCHANGED wval
      /\ (nDoInBackground' # nDoInBackground) => ~atCancelled ]_vars

\* The task is an AsyncTaskPQ whose isLastProgressShouldBeOverride always
\* answers true.
MergingPQ == subclass.variant = "AsyncTaskPQ" /\ subclass.merge

\* C18: with an always-merging predicate and a worker publishing
\* 1 .. MaxPublish, onProgressUpdate gets exactly one snapshot, the last
\* one, whatever the interleaving: nothing else is ever delivered, and the
\* last one has been delivered once the task is FINISHED.
C18_MergeDeliversLast ==
  MergingPQ =>
    /\ delivered \in {<<>>, <<MaxPublish>>}
    /\ (mStatus = "FINISHED" /\ Len(published) = MaxPublish) =>
         delivered = <<MaxPublish>>

\* C18, as the code has it: the queue of an always-merging task holds at
\* most one snapshot, the last one stored; each onCallbackLoop() delivers
\* at most one snapshot, the last one stored at that moment, so what is
\* delivered is strictly increasing; and when 1 .. MaxPublish were all
\* stored before the first delivery, that delivery is MaxPublish alone.
C18_MergeKeepsLatest ==
  [][ MergingPQ =>
        /\ Len(mProgressQueue') <= 1
        /\ mProgressQueue' # <<>> =>
             mProgressQueue'[1] = published'[Len(published')]
        /\ delivered' # delivered =>
             /\ delivered' = Append(delivered, published[Len(published)])
             /\ delivered # <<>> =>
                  delivered[Len(delivered)] < published[Len(published)]
             /\ (delivered = <<>> /\ Len(published) = MaxPublish) =>
                  delivered' = <<MaxPublish>> ]_vars

C18_Witness ==
  /\ MergingPQ
  /\ Len(published) = MaxPublish
  /\ delivered = <<MaxPublish>>
  /\ lastOp = "onCallbackLoop"

\* C19: for AsyncTaskPQ, once the status is FINISHED no stored snapshot is
\* left undelivered: the queue is empty, and with a never-merging
\* predicate everything the worker stored has been delivered, in order.
C19_NoSnapshotDropped ==
  (subclass.variant = "AsyncTaskPQ" /\ mStatus = "FINISHED") =>
    /\ mProgressQueue = <<>>
    /\ ~subclass.merge => delivered = published

\* C20: onProgressUpdate runs only inside an onCallbackLoop() that found
\* the status RUNNING and the worker not ready, and leaves it RUNNING:
\* never inside get(), never once the status is FINISHED.
C20_ProgressOnlyWhilePolling ==
  [][ /\ delivered' # delivered =>
          /\ OwnerStep("onCallbackLoop")
          /\ mStatus = "RUNNING" /\ mStatus' = "RUNNING"
          /\ futValid
          /\ opc = "poll_wait" \/ ~futReady
      /\ (opc' = "poll_wait" /\ opc # "poll_wait") =>
          (mStatus = "RUNNING" /\ futValid /\ ~futReady) ]_vars

C20_Witness ==
  /\ delivered # <<>>
  /\ mStatus = "RUNNING" /\ ~futReady
  /\ lastOp = "onCallbackLoop" /\ lastRet = 0 /\ opc = "live"

\* s can be obtained from t by leaving elements out.
RECURSIVE IsSubsequence(_, _)
IsSubsequence(s, t) ==
  IF s = <<>> THEN TRUE
  ELSE IF t = <<>> THEN FALSE
  ELSE IF Head(s) = Head(t) THEN IsSubsequence(Tail(s), Tail(t))
  ELSE IsSubsequence(s, Tail(t))

\* C21: for AsyncTaskPQ the snapshots handed to onProgressUpdate so far
\* are a subsequence of the snapshots the worker stored so far: same
\* order, none twice, none that was never stored.
C21_DeliveredSubsequence ==
  subclass.variant = "AsyncTaskPQ" => IsSubsequence(delivered, published)

C21_Witness ==
  /\ subclass.variant = "AsyncTaskPQ"
  /\ Len(published) = MaxPublish
  /\ Len(delivered) = 2
  /\ delivered[1] < delivered[2]

\* C22: once the owner's cancel() has returned no publishProgress changes
\* the progress slot or queue any more; cancel() itself leaves what was
\* stored in place and undelivered.
C22_NoProgressAfterCancel ==
  [][ /\ cancelCalled =>
          (published' = published /\ mProgress' = mProgress
             /\ Len(mProgressQueue') <= Len(mProgressQueue))
      /\ OwnerStep("cancel") =>
          UNCHANGED <<mProgress, mProgressQueue, published, delivered>> ]_vars

\* The values onProgressUpdate has been called with.
Observed == { delivered[i] : i \in 1 .. Len(delivered) }

\* C23: when the computation has published 1 .. MaxPublish, nobody asked
\* for cancellation and the polling owner has seen the task FINISHED,
\* onProgressUpdate has run at least once and has seen the first and the
\* last published value.
C23_FirstAndLastObserved ==
  ( /\ mStatus = "FINISHED" /\ ~atCancelled
    /\ Len(published) = MaxPublish ) =>
      /\ delivered # <<>>
      /\ published[1] \in Observed
      /\ published[MaxPublish] \in Observed

\* C24: an execute() that returns normally has run onPreExecute, for the
\* only time, and returns with the status RUNNING and the worker spawned
\* but not yet inside doInBackground; so neither the worker nor
\* doInBackground ever begins before onPreExecute has completed.
C24_PreExecuteBeforeWorker ==
  [][ /\ (OwnerStep("execute") /\ lastExc' = "none") =>
          /\ mStatus = "PENDING" /\ mStatus' = "RUNNING"
          /\ nPreExecute = 0 /\ nPreExecute' = 1
          /\ nSpawn' = 1 /\ wpc = "none" /\ wpc' = "start"
          /\ nDoInBackground' = 0
      /\ (wpc' # "none" \/ nDoInBackground' > 0) =>
          (nPreExecute' = 1 /\ nSpawn' = 1 /\ mStatus' # "PENDING") ]_vars

C24_Witness ==
  /\ lastOp = "execute" /\ lastExc = "none"
  /\ mStatus = "RUNNING" /\ nPreExecute = 1
  /\ nDoInBackground = 1 /\ wpc = "body"

\* C25: the cancellation flag turns true only in the owner's cancel() or
\* in the teardown of a RUNNING task.
C25_CancelOnlyByOwner ==
  [][ (~atCancelled /\ atCancelled') =>
        \/ OwnerStep("cancel")
        \/ OwnerStep("dtor") /\ mStatus = "RUNNING" ]_vars

\* C25, as the code has it: the flag turns true only in the owner's
\* cancel(), in the teardown of a RUNNING task, or in the catch block of
\* the worker after doInBackground, storeProgress or postResult raised.
C25_CancelSources ==
  [][ (~atCancelled /\ atCancelled') =>
        \/ OwnerStep("cancel")
        \/ OwnerStep("dtor") /\ mStatus = "RUNNING"
        \/ wpc = "catch_cancel" /\ failed /\ UNCHANGED ownerLog ]_vars

C25_Witness ==
  /\ atCancelled /\ ~cancelCalled /\ failed
  /\ opc = "live" /\ wpc = "done"

\* A step in which the owner runs onPreExecute, a completion hook or
\* onProgressUpdate.
OwnerHookRuns ==
  \/ nPreExecute' # nPreExecute
  \/ HooksRun' # HooksRun
  \/ delivered' # delivered

\* A step in which the worker asks isLastProgressShouldBeOverride:
\* ThreadSafeQueue::store calls it unless the queue is empty.
MergePredicateRuns ==
  /\ subclass.variant = "AsyncTaskPQ"
  /\ wpc = "locked" /\ wpc' # "locked"
  /\ mProgressQueue # <<>>

\* C26: no progress mutex is held when a user hook runs: onPreExecute,
\* onPostExecute, onCancelled, onProgressUpdate or the merge predicate.
C26_NoHookUnderLock ==
  [][ (OwnerHookRuns \/ MergePredicateRuns) => mMutex = "free" ]_vars

\* C26, as the code has it: onPreExecute, onPostExecute, onCancelled and
\* onProgressUpdate run with the progress mutex free, and their step
\* leaves it free; isLastProgressShouldBeOverride runs on the worker
\* inside ThreadSafeQueue::store, with the queue mutex held.
C26_OwnerHooksOutsideLock ==
  [][ /\ OwnerHookRuns => (mMutex = "free" /\ mMutex' = "free")
      /\ MergePredicateRuns => mMutex = "worker" ]_vars

\* The predicate merged 2 over the queued 1 and a poll then delivered it.
C26_Witness ==
  /\ MergingPQ
  /\ published = <<1, 2>> /\ delivered = <<2>>
  /\ mMutex = "free" /\ wpc = "body"

\* A step in which the owner is inside finish(): it stores the worker's
\* value in mResult, runs a completion hook and tests eptr.
FinishRuns == HooksRun' # HooksRun \/ nRethrow' # nRethrow

\* C27: the worker's result and the captured failure are each written
\* once, by the worker, before the future is ready; the owner reads them
\* only inside finish, when the future is ready and the worker lambda has
\* returned, so never while the worker can still write them.
C27_ResultAndFailureHandOver ==
  [][ /\ eptr' # eptr =>
          /\ wpc = "catch_eptr" /\ eptr = NullEptr /\ eptr' = wexc
          /\ ~futReady /\ UNCHANGED ownerLog
      /\ (futReady' # futReady \/ futValue' # futValue) =>
          /\ wpc = "ret" /\ wpc' = "done"
          /\ ~futReady /\ futReady' /\ futValue' = wval
          /\ UNCHANGED ownerLog
      /\ FinishRuns =>
          /\ futReady /\ wpc = "done"
          /\ mResult' = futValue
          /\ UNCHANGED <<eptr, futValue, futReady>> ]_vars

\* The owner's cancel() raced with a failing worker; get() rethrew.
C27_Witness ==
  /\ cancelCalled /\ failed /\ eptr # NullEptr
  /\ mStatus = "FINISHED" /\ nRethrow = 1
  /\ lastOp = "get" /\ lastExc = eptr /\ wpc = "done"

\* C28: once the teardown of the task has begun the subclass's postResult
\* override is not invoked any more: the worker's call reaches the base
\* postResult.
C28_NoOverrideDuringTeardown ==
  [][ nPostResultOverride' # nPostResultOverride => DerivedAlive ]_vars

\* C29: whenever the owner is between two calls and the status is
\* RUNNING, a worker was spawned and mFuture is still valid, so a later
\* get() or onCallbackLoop() can finish the task.
C29_RunningHasWorker ==
  (opc = "live" /\ mStatus = "RUNNING") => (nSpawn = 1 /\ futValid)

\* C30: finish runs only on the value of a valid future whose worker was
\* spawned and has returned; get() on a PENDING task does not wait, runs
\* no hook, performs no finish and leaves the status PENDING (the call
\* itself ends in std::future_error or ends the process).
C30_FinishNeedsWorker ==
  [][ /\ FinishRuns =>
          /\ mStatus = "RUNNING" /\ nSpawn = 1
          /\ futValid /\ futReady /\ wpc = "done"
      /\ (OwnerStep("get") /\ mStatus = "PENDING") =>
          /\ opc' # "get_wait"
          /\ lastExc' \in {"future_error", "crash"}
          /\ UNCHANGED <<progVars, workVars, hookLog, workLog,
                         nSpawn, nRethrow, cancelCalled, delivered>> ]_vars

C30_Witness ==
  /\ lastOp = "get" /\ lastExc = "future_error"
  /\ mStatus = "PENDING" /\ opc = "live"
  /\ HooksRun = 0 /\ nSpawn = 0

\* C31: in the latest-value variant every value onProgressUpdate gets is
\* one the worker published before, namely the last one stored at the
\* time of the poll.
C31_DeliversPublished ==
  [][ (subclass.variant = "AsyncTask" /\ delivered' # delivered) =>
        /\ published # <<>>
        /\ delivered' = Append(delivered, published[Len(published)]) ]_vars

\* C31, as the code has it: every poll that finds the worker not ready
\* hands onProgressUpdate the content of the slot: the last value stored,
\* or the default-constructed Progress when nothing was stored yet.
C31_DeliversSlot ==
  [][ (subclass.variant = "AsyncTask" /\ delivered' # delivered) =>
        /\ delivered' = Append(delivered, mProgress)
        /\ mProgress = (IF published = <<>> THEN DefaultProgress
                                            ELSE published[Len(published)])
      ]_vars

C31_Witness ==
  /\ subclass.variant = "AsyncTask"
  /\ Len(delivered) = 2 /\ published # <<>>
  /\ delivered[1] = DefaultProgress
  /\ delivered[2] = published[Len(published)]

\* cancel() has been called on a task that was not executed yet.
CancelledWhilePending == mStatus = "PENDING" /\ atCancelled

\* C32: cancel() on a PENDING task does not prevent activation: the later
\* execute() passes the status check, runs onPreExecute, sets RUNNING and,
\* unless the hook raised, spawns the worker; from then on doInBackground
\* and postResult never run, onPostExecute never runs, a finished task
\* has run onCancelled and holds the default result, and a get() that
\* returns, returns the default result with the status FINISHED.
C32_CancelBeforeExecute ==
  /\ [][ (CancelledWhilePending /\ OwnerStep("execute")) =>
            /\ lastExc' \in {"none", "hook"}
            /\ nPreExecute' = 1 /\ mStatus' = "RUNNING"
            /\ lastExc' = "none" => (nSpawn' = 1 /\ futValid') ]_vars
  /\ [](CancelledWhilePending =>
          [](/\ nDoInBackground = 0 /\ nPostResultOverride = 0
             /\ nPostExecute = 0
             /\ mStatus = "FINISHED" =>
                  (nCancelled = 1 /\ mResult = DefaultResult
                     /\ hookArg = DefaultResult)
             /\ (lastOp = "get" /\ lastExc = "none" /\ opc = "live") =>
                  (lastRet = DefaultResult /\ mStatus = "FINISHED")))

\* The last owner call is the execute() that succeeded after cancel(); the
\* worker it spawned has skipped doInBackground and returned the default.
C32_Witness ==
  /\ cancelCalled /\ atCancelled
  /\ lastOp = "execute" /\ lastExc = "none"
  /\ mStatus = "RUNNING" /\ nPreExecute = 1 /\ nSpawn = 1
  /\ wpc = "done" /\ nDoInBackground = 0
  /\ futReady /\ futValue = DefaultResult

====
